---- MODULE Spec2Model ----
(***************************************************************************)
(* The ImmuDB benchmark harness: its latency statistics, its benchmark     *)
(* drivers, its comparison report and its database connection.             *)
(*                                                                         *)
(* calculateLatencyStats and percentile (main package) turn a slice of     *)
(* time.Duration samples into a LatencyStats report.  Both are pure        *)
(* functions: the specification draws the sample slice and the             *)
(* enablePercentiles flag in Init and the actions apply the function, once *)
(* to the slice and once, with a flag of its own, to a reordering of it.   *)
(*                                                                         *)
(* time.Duration is an int64 count of nanoseconds.  The sample values of   *)
(* the model are small integers, far inside the int64 range, so that the   *)
(* additions of the summing loop never wrap here.                          *)
(***************************************************************************)
EXTENDS Integers, Sequences, FiniteSets, TLC

\* the statistics engine
VARIABLES durations, enablePercentiles, stats, called,
          permuted, permEnable, permStats, permCalled,
          handedIn, again, againCalled
\* a benchmark run
VARIABLES entry, cfg, pc, phase, calls, samples, reports, outputs, now,
          queryStart, timing, inFlight, halted, hadData

\* the comparison of two benchmark results
VARIABLES withIndexesResult, withoutIndexesResult, compared, lines, summary

\* the database connection
VARIABLES db, err, onceDone, onceMutex, opened, initRuns, callerPc,
          callsMade, returned

\* the query counts of runIndexPerformanceTest
VARIABLES RandomReadCount, readRatios, queryCounts, counted

\* the table and the statements sent to it while a run sets it up
VARIABLES tableEntry, withIndexes, tablePc, tableExists, rows, indexes,
          statements, nextIndex

\* generateBlockBasedTransactions: its arguments, its locals and its result
VARIABLES totalTxns, txnsPerBlock, startBlock, loopIndex, currentBlock,
          txnsInCurrentBlock, transactions, generated

\* InsertRecords: its argument, its loop, the batches sent, the rows of the table
VARIABLES records, batchStart, batches, inserted, insertErr, insertReturned

\* the two runs of runIndexBenchmarkComparison: the records each inserts and
\* the arguments of the queries each sends
VARIABLES benchConfig, benchRun, benchPc, benchTransactions, runDatasets,
          runQueries, benchQueries

statsVars == <<durations, enablePercentiles, stats, called,
               permuted, permEnable, permStats, permCalled,
               handedIn, again, againCalled>>

driverVars == <<entry, cfg, pc, phase, calls, samples, reports, outputs, now,
                queryStart, timing, inFlight, halted, hadData>>

compareVars == <<withIndexesResult, withoutIndexesResult, compared, lines,
                 summary>>

connectVars == <<db, err, onceDone, onceMutex, opened, initRuns, callerPc,
                 callsMade, returned>>

countsVars == <<RandomReadCount, readRatios, queryCounts, counted>>

tableVars == <<tableEntry, withIndexes, tablePc, tableExists, rows, indexes,
               statements, nextIndex>>

generateVars == <<totalTxns, txnsPerBlock, startBlock, loopIndex,
                  currentBlock, txnsInCurrentBlock, transactions, generated>>

insertVars == <<records, batchStart, batches, inserted, insertErr,
                insertReturned>>

datasetVars == <<benchConfig, benchRun, benchPc, benchTransactions,
                 runDatasets, runQueries, benchQueries>>

\* the variables of the further components
moreVars == <<countsVars, tableVars, generateVars, insertVars, datasetVars>>

vars == <<statsVars, driverVars, compareVars, connectVars, moreVars>>

(***************************************************************************)
(* Bounds of the model.                                                    *)
(***************************************************************************)
\* longest sample slice that is enumerated exhaustively
MaxLen == 3
\* exhaustive samples range over -MaxDur .. MaxDur (negative: clock skew)
MaxDur == 2

(***************************************************************************)
(* Helpers for Go's integer arithmetic and slices.                         *)
(***************************************************************************)
\* Variant: division that rounds toward minus infinity.
FloorDiv(a, b) == a \div b

\* Go's integer division truncates toward zero (TLA+'s \div floors).
TruncDiv(a, b) ==
  IF a >= 0 THEN a \div b ELSE -((-a) \div b)

\* sort.Slice(s, func(i, j int) bool { return s[i] < s[j] }): the standard
\* library's quicksort with the comparison of the call.  The elements less
\* than the pivot go before it and the greater ones behind it; elements
\* equal to the pivot are indistinguishable integers.
\* Variant: the elements equal to the pivot collapse into the pivot.
RECURSIVE QuickSortMerging(_)
QuickSortMerging(s) ==
  IF Len(s) <= 1 THEN s
  ELSE LET pivot == s[(Len(s) + 1) \div 2]
       IN  QuickSortMerging(SelectSeq(s, LAMBDA x : x < pivot))
             \o <<pivot>>
             \o QuickSortMerging(SelectSeq(s, LAMBDA x : x > pivot))

RECURSIVE QuickSort(_)
QuickSort(s) ==
  IF Len(s) <= 1 THEN s
  ELSE LET pivot == s[(Len(s) + 1) \div 2]
       IN  QuickSort(SelectSeq(s, LAMBDA x : x < pivot))
             \o SelectSeq(s, LAMBDA x : x = pivot)
             \o QuickSort(SelectSeq(s, LAMBDA x : x > pivot))

\* Variant: the copy is made and the sort.Slice call left out.
CopyOnly(d) == SubSeq(d, 1, Len(d))

\* sorted := make([]time.Duration, len(durations)); copy(sorted, durations);
\* sort.Slice(sorted, ...).  The slice handed in is not written.
SortedCopy(d) == QuickSort(SubSeq(d, 1, Len(d)))

\* Variant: sorted := durations, the slice handed in is sorted in place.
SortTargetInput == "input"

\* the slice that sort.Slice is called on: the one made at line 112
SortTarget == "copy"

\* The two backing arrays when the call returns: the caller's and the one
\* that make() allocated and copy() filled.  An empty slice returns before
\* anything is allocated.
SliceMemory(d) ==
  IF Len(d) = 0 THEN [input |-> d, copy |-> <<>>]
  ELSE [[input |-> d, copy |-> SubSeq(d, 1, Len(d))]
          EXCEPT ![SortTarget] = QuickSort(@)]

(***************************************************************************)
(* percentile(sorted, p).  p is one of the float64 constants 0.50, 0.95,   *)
(* 0.99, 0.999, written here in thousandths.  index is                     *)
(* int(float64(len(sorted)) * p): the product is rounded to the nearest    *)
(* double and int() truncates it.  0.5 is an exact double; 0.95, 0.99 and  *)
(* 0.999 are not, but for every slice length up to several million the     *)
(* rounded product is the integer n*p when n*p is one and lies between the *)
(* same two integers as n*p otherwise, so that index is the floor of the   *)
(* exact product.  Go slices are 0-based: sorted[index] is element         *)
(* index + 1 of the sequence.                                              *)
(***************************************************************************)
\* Variants of the index computation (each a slip the code does not make).
\* the fraction counted from the top of the slice
PercentileIndexFromTop(n, pm) ==
  LET index == (n * (1000 - pm)) \div 1000
  IN  IF index >= n THEN n - 1 ELSE index

\* nearest rank with rounding up: ceil(n * p) - 1
PercentileIndexCeil(n, pm) ==
  LET index == ((n * pm + 999) \div 1000) - 1
  IN  IF index >= n THEN n - 1 ELSE index

\* rounding to the nearest index instead of truncating
PercentileIndexRound(n, pm) ==
  LET index == (n * pm + 500) \div 1000
  IN  IF index >= n THEN n - 1 ELSE index

PercentileIndex(n, pm) ==
  LET index == (n * pm) \div 1000
  IN  IF index >= n THEN n - 1 ELSE index

\* Variant: the guard taken one too far (len(sorted) <= 1).
percentileShortGuard(sorted, pm) ==
  IF Len(sorted) <= 1 THEN 0
  ELSE sorted[PercentileIndex(Len(sorted), pm) + 1]

percentile(sorted, pm) ==
  IF Len(sorted) = 0 THEN 0
  ELSE sorted[PercentileIndex(Len(sorted), pm) + 1]

(***************************************************************************)
(* LatencyStats and calculateLatencyStats.                                 *)
(***************************************************************************)
\* Variant: Min preset to a large sentinel instead of the zero value.
ZeroStatsMinSentinel ==
  [Count |-> 0, Min |-> 1000000, Max |-> 0, Mean |-> 0, P50 |-> 0, P95 |-> 0,
   P99 |-> 0, P999 |-> 0, Total |-> 0, Durations |-> <<>>]

ZeroStats ==
  [Count |-> 0, Min |-> 0, Max |-> 0, Mean |-> 0, P50 |-> 0, P95 |-> 0,
   P99 |-> 0, P999 |-> 0, Total |-> 0, Durations |-> <<>>]

\* Variant: the second comparison of the loop turned round (d < stats.Max).
RECURSIVE RangeLoopMaxTurned(_, _, _)
RangeLoopMaxTurned(sorted, lo, hi) ==
  IF lo = hi
  THEN [total |-> sorted[lo], Min |-> sorted[lo], Max |-> sorted[lo]]
  ELSE LET mid   == (lo + hi) \div 2
           left  == RangeLoopMaxTurned(sorted, lo, mid)
           right == RangeLoopMaxTurned(sorted, mid + 1, hi)
       IN  [total |-> left.total + right.total,
            Min   |-> IF right.Min < left.Min THEN right.Min ELSE left.Min,
            Max   |-> IF right.Max < left.Max THEN right.Max ELSE left.Max]

\* Variant: the first comparison of the loop turned round (d > stats.Min).
RECURSIVE RangeLoopMinTurned(_, _, _)
RangeLoopMinTurned(sorted, lo, hi) ==
  IF lo = hi
  THEN [total |-> sorted[lo], Min |-> sorted[lo], Max |-> sorted[lo]]
  ELSE LET mid   == (lo + hi) \div 2
           left  == RangeLoopMinTurned(sorted, lo, mid)
           right == RangeLoopMinTurned(sorted, mid + 1, hi)
       IN  [total |-> left.total + right.total,
            Min   |-> IF right.Min > left.Min THEN right.Min ELSE left.Min,
            Max   |-> IF right.Max > left.Max THEN right.Max ELSE left.Max]

\* for _, d := range sorted { total += d; if d < stats.Min { stats.Min = d };
\* if d > stats.Max { stats.Max = d } }   over sorted[lo] .. sorted[hi]:
\* what the iterations add to total, and the least and the greatest d they
\* compare with stats.Min and stats.Max.  The range is halved so that the
\* evaluation stays shallow on long slices.
RECURSIVE RangeLoop(_, _, _)
RangeLoop(sorted, lo, hi) ==
  IF lo = hi
  THEN [total |-> sorted[lo], Min |-> sorted[lo], Max |-> sorted[lo]]
  ELSE LET mid   == (lo + hi) \div 2
           left  == RangeLoop(sorted, lo, mid)
           right == RangeLoop(sorted, mid + 1, hi)
       IN  [total |-> left.total + right.total,
            Min   |-> IF right.Min < left.Min THEN right.Min ELSE left.Min,
            Max   |-> IF right.Max > left.Max THEN right.Max ELSE left.Max]

\* Variant: || in place of && in the condition of the percentile branch.
PercentilesEitherCondition(sorted, enable) ==
  IF enable \/ Len(sorted) > 0
  THEN [P50  |-> percentile(sorted, 500),
        P95  |-> percentile(sorted, 950),
        P99  |-> percentile(sorted, 990),
        P999 |-> percentile(sorted, 999)]
  ELSE [P50  |-> IF Len(sorted) > 0
                 THEN sorted[(Len(sorted) \div 2) + 1] ELSE 0,
        P95  |-> 0,
        P99  |-> 0,
        P999 |-> 0]

\* if enablePercentiles && len(sorted) > 0 { P50 .. P999 = percentile(...) }
\* else { if len(sorted) > 0 { stats.P50 = sorted[len(sorted)/2] } }
Percentiles(sorted, enable) ==
  IF enable /\ Len(sorted) > 0
  THEN [P50  |-> percentile(sorted, 500),
        P95  |-> percentile(sorted, 950),
        P99  |-> percentile(sorted, 990),
        P999 |-> percentile(sorted, 999)]
  ELSE [P50  |-> IF Len(sorted) > 0
                 THEN sorted[(Len(sorted) \div 2) + 1] ELSE 0,
        P95  |-> 0,
        P99  |-> 0,
        P999 |-> 0]

\* if enablePercentiles { stats.Durations = sorted }
RetainedDurations(sorted, enable) ==
  IF enable THEN sorted ELSE <<>>

\* stats.Min and stats.Max start at durations[0], total at 0; Mean is
\* total / time.Duration(len(sorted)).
calculateLatencyStats(d, enable) ==
  IF Len(d) = 0 THEN ZeroStats
  ELSE
    LET sorted == SortedCopy(d)
        loop   == RangeLoop(sorted, 1, Len(sorted))
        total  == 0 + loop.total
        pct    == Percentiles(sorted, enable)
    IN  [Count |-> Len(d),
         Min   |-> IF loop.Min < d[1] THEN loop.Min ELSE d[1],
         Max   |-> IF loop.Max > d[1] THEN loop.Max ELSE d[1],
         Mean  |-> TruncDiv(total, Len(sorted)),
         P50   |-> pct.P50,
         P95   |-> pct.P95,
         P99   |-> pct.P99,
         P999  |-> pct.P999,
         Total |-> total,
         Durations |-> RetainedDurations(sorted, enable)]

(***************************************************************************)
(* Inputs.  Every slice of at most MaxLen samples over -MaxDur .. MaxDur   *)
(* (empty slice, duplicates, zero and negative values), together with      *)
(* longer slices: percentile picks an element other than the last one only *)
(* from 21 (P95), 101 (P99) and 1001 (P999) samples on.                    *)
(***************************************************************************)
ShortSamples ==
  UNION {[1..n -> (-MaxDur)..MaxDur] : n \in 0..MaxLen}

LongLens == {10, 21, 101, 1001}

\* n samples in scrambled order; q = 1: the distinct values 0 .. n-1,
\* q = 2: every value twice, starting below zero.
LongSample(n, q) ==
  [i \in 1..n |-> ((i * 17) % n) \div q - (q - 1)]

\* the ten samples 10ms .. 100ms, in milliseconds
TenSamples == [i \in 1..10 |-> 10 * i]

SampleSets ==
  ShortSamples \cup {LongSample(n, q) : n \in LongLens, q \in {1, 2}}
               \cup {TenSamples}

Reverse(s) == [i \in 1..Len(s) |-> s[Len(s) + 1 - i]]

\* the orders in which the same samples are handed in a second time
Reorderings(s) ==
  IF Len(s) <= MaxLen
  THEN {[i \in 1..Len(s) |-> s[f[i]]] : f \in Permutations(1..Len(s))}
  ELSE {s, Reverse(s), SubSeq(s, 2, Len(s)) \o <<s[1]>>}

(***************************************************************************)
(* The values of a component's variables in the specifications of the      *)
(* other components, where it takes no step.                               *)
(***************************************************************************)
Categories == {"hash", "from", "to", "block"}

StatsIdle ==
  /\ durations = <<>>
  /\ permuted = <<>>
  /\ enablePercentiles = TRUE
  /\ permEnable = TRUE
  /\ stats = ZeroStats
  /\ called = TRUE
  /\ permStats = ZeroStats
  /\ permCalled = TRUE
  /\ handedIn = <<>>
  /\ again = ZeroStats
  /\ againCalled = TRUE

NoSamples == [cat \in Categories |-> <<>>]

NoReports == [cat \in Categories |-> <<>>]

\* the driver variables of a state in which no run is modelled
DriverIdle ==
  /\ entry = "none"
  /\ cfg = [TransactionCount |-> 0, WarmupQueries |-> 0, QueryHashCount |-> 0,
            QueryFromCount |-> 0, QueryToCount |-> 0, QueryBlockCount |-> 0,
            EnablePercentiles |-> TRUE, withIndexes |-> TRUE]
  /\ pc = 1
  /\ phase = "issue"
  /\ calls = <<>>
  /\ samples = NoSamples
  /\ reports = NoReports
  /\ outputs = <<>>
  /\ now = 0
  /\ queryStart = 0
  /\ timing = FALSE
  /\ inFlight = 0
  /\ halted = "done"
  /\ hadData = FALSE

\* the sections of the comparison: the four query categories and the
\* count by FROM address
Sections == Categories \cup {"countFrom"}

NoLines == [s \in Sections |-> <<>>]

CompareIdle ==
  /\ withIndexesResult = [s \in Sections |-> 0]
  /\ withoutIndexesResult = [s \in Sections |-> 0]
  /\ compared = TRUE
  /\ lines = NoLines
  /\ summary = <<>>

\* most goroutines that call ConnectDB
MaxCallers == 3
\* most calls of ConnectDB by one goroutine
MaxCallsEach == 2

Callers == 1..MaxCallers

ConnectIdle ==
  /\ db = 0
  /\ err = "nil"
  /\ onceDone = TRUE
  /\ onceMutex = 0
  /\ opened = 0
  /\ initRuns = 0
  /\ callerPc = [p \in Callers |-> "idle"]
  /\ callsMade = [p \in Callers |-> MaxCallsEach]
  /\ returned = {}

\* most read queries of a configuration
MaxReads == 12

\* the read ratios of the model are multiples of 1/RatioScale
RatioScale == 20

CountsIdle ==
  /\ RandomReadCount = 0
  /\ readRatios = [hash |-> 0, from |-> 0, to |-> 0]
  /\ queryCounts = [hash |-> 0, from |-> 0, to |-> 0, block |-> 0]
  /\ counted = TRUE

\* most rows of the table when a run begins
MaxRows == 1

TableIdle ==
  /\ tableEntry = "none"
  /\ withIndexes = TRUE
  /\ tablePc = "end"
  /\ tableExists = FALSE
  /\ rows = 0
  /\ indexes = {}
  /\ statements = <<>>
  /\ nextIndex = 1

\* most records asked for, and most records of a block
MaxTxns == 5

MaxPerBlock == 3

GenerateIdle ==
  /\ totalTxns = 0
  /\ txnsPerBlock = 1
  /\ startBlock = 0
  /\ loopIndex = 0
  /\ currentBlock = 0
  /\ txnsInCurrentBlock = 0
  /\ transactions = <<>>
  /\ generated = TRUE

\* most records handed to InsertRecords: two full batches and one more
MaxRecords == 401

InsertIdle ==
  /\ records = <<>>
  /\ batchStart = 0
  /\ batches = <<>>
  /\ inserted = <<>>
  /\ insertErr = <<>>
  /\ insertReturned = TRUE

\* most records of a benchmark run, and most queries of one of its loops
MaxTransactions == 2

MaxLoopQueries == 2

NoQueries == [c \in {"hash", "from", "to", "block"} |-> <<>>]

DatasetIdle ==
  /\ benchConfig = [TransactionCount |-> 1, QueryCount |-> 1]
  /\ benchRun = 3
  /\ benchPc = "done"
  /\ benchTransactions = <<>>
  /\ runDatasets = <<>>
  /\ runQueries = <<>>
  /\ benchQueries = NoQueries

\* the further components
MoreIdle ==
  /\ CountsIdle
  /\ TableIdle
  /\ GenerateIdle
  /\ InsertIdle
  /\ DatasetIdle

\* the same, but for the component g, whose specification sets its variables
MoreIdleExcept(g) ==
  /\ IF g = "counts" THEN TRUE ELSE CountsIdle
  /\ IF g = "table" THEN TRUE ELSE TableIdle
  /\ IF g = "generate" THEN TRUE ELSE GenerateIdle
  /\ IF g = "insert" THEN TRUE ELSE InsertIdle
  /\ IF g = "dataset" THEN TRUE ELSE DatasetIdle

(***************************************************************************)
(* Specification of the statistics engine.                                 *)
(***************************************************************************)
Init ==
  /\ DriverIdle
  /\ CompareIdle
  /\ ConnectIdle
  /\ MoreIdle
  /\ durations \in SampleSets
  /\ handedIn = durations
  /\ again = ZeroStats
  /\ againCalled = FALSE
  /\ permuted \in Reorderings(durations)
  /\ enablePercentiles \in BOOLEAN
  /\ permEnable \in BOOLEAN
  /\ stats = ZeroStats
  /\ called = FALSE
  /\ permStats = ZeroStats
  /\ permCalled = FALSE

\* stats := calculateLatencyStats(durations, config.EnablePercentiles);
\* durations is afterwards what the call left in the caller's slice
Calculate ==
  /\ ~called
  /\ stats' = calculateLatencyStats(durations, enablePercentiles)
  /\ durations' = SliceMemory(durations).input
  /\ called' = TRUE
  /\ UNCHANGED <<enablePercentiles, permuted, permEnable, permStats,
                 permCalled, handedIn, again, againCalled>>
  /\ UNCHANGED <<driverVars, compareVars, connectVars, moreVars>>

\* the call on the reordered slice
CalculatePermuted ==
  /\ ~permCalled
  /\ permStats' = calculateLatencyStats(permuted, permEnable)
  /\ permCalled' = TRUE
  /\ UNCHANGED <<durations, enablePercentiles, permuted, permEnable,
                 stats, called, handedIn, again, againCalled>>
  /\ UNCHANGED <<driverVars, compareVars, connectVars, moreVars>>

\* the same slice is handed to calculateLatencyStats a second time, as the
\* final summary of runIndexPerformanceTest does
CalculateAgain ==
  /\ called /\ ~againCalled
  /\ again' = calculateLatencyStats(durations, enablePercentiles)
  /\ durations' = SliceMemory(durations).input
  /\ againCalled' = TRUE
  /\ UNCHANGED <<enablePercentiles, permuted, permEnable, stats, called,
                 permStats, permCalled, handedIn>>
  /\ UNCHANGED <<driverVars, compareVars, connectVars, moreVars>>

Next == Calculate \/ CalculatePermuted \/ CalculateAgain

Spec == Init /\ [][Next]_vars

(***************************************************************************)
(* The benchmark drivers.                                                  *)
(*                                                                         *)
(* runPerformanceTest, runBenchmarkTest and runIndexPerformanceTest are    *)
(* straight-line programs of calls on the table operations (the            *)
(* collaborator), run by one goroutine.  A run is modelled as a sequence   *)
(* of instructions in the order of the source; a call is a step that       *)
(* issues it and a step in which it returns, then the step that takes the  *)
(* duration and appends it, then the step that looks at the error and      *)
(* prints.  The clock is logical: the k-th call of a run takes k ticks.    *)
(***************************************************************************)
\* most timed queries of a run, all categories together
MaxQueries == 2
\* most warmup queries of a run
MaxWarmup == 2
\* most calls of a run that fail with an execution error
MaxFailures == 1

\* Variant: a lookup that matches no row is reported as a failed query.
QueryRecordNoRowsFails(scan) ==
  IF scan = "row" THEN [record |-> "found", err |-> "nil"]
  ELSE [record |-> "nil", err |-> "failed to query record"]

\* TableOps.QueryRecord: what it returns for the three results of
\* QueryRowContext(...).Scan(...).
QueryRecord(scan) ==
  IF scan = "ErrNoRows" THEN [record |-> "nil", err |-> "nil"]
  ELSE IF scan # "row"
       THEN [record |-> "nil", err |-> "failed to query record"]
       ELSE [record |-> "found", err |-> "nil"]

\* The other table operations: a result (rows: whether it is non-empty)
\* or a wrapped execution error.
OtherOperation(scan) ==
  IF scan = "execerr" THEN [record |-> "nil", err |-> "failed"]
  ELSE IF scan = "row" THEN [record |-> "found", err |-> "nil"]
       ELSE [record |-> "nil", err |-> "nil"]

\* one instruction of a run
Call(op, kind, cat, onErr, sample, cond, iter) ==
  [type |-> "call", op |-> op, kind |-> kind, cat |-> cat, onErr |-> onErr,
   sample |-> sample, cond |-> cond, iter |-> iter]

Stats(cat) ==
  [type |-> "stats", op |-> "calculateLatencyStats", kind |-> "none",
   cat |-> cat, onErr |-> "ignore", sample |-> FALSE, cond |-> "always",
   iter |-> 0]

\* an index into the empty transaction slice, or a division by zero
Panic ==
  [type |-> "panic", op |-> "panic", kind |-> "none", cat |-> "none",
   onErr |-> "ignore", sample |-> FALSE, cond |-> "always", iter |-> 0]

Setup(op, onErr) == <<Call(op, "setup", "none", onErr, FALSE, "always", 0)>>

Count(op, onErr) == <<Call(op, "count", "none", onErr, FALSE, "always", 0)>>

\* for i := 0; i < n; i++ { ... op ... }
Loop(n, op, kind, cat, onErr, sample) ==
  [i \in 1..n |-> Call(op, kind, cat, onErr, sample /\ i = 1, "always", i - 1)]

QueryOp(cat) ==
  CASE cat = "hash" -> "QueryRecord"
    [] cat = "from" -> "QueryRecordsByFrom"
    [] cat = "to" -> "QueryRecordsByTo"
    [] OTHER -> "QueryRecordsByBlockNumber"

QueryCount(c, cat) ==
  CASE cat = "hash" -> c.QueryHashCount
    [] cat = "from" -> c.QueryFromCount
    [] cat = "to" -> c.QueryToCount
    [] OTHER -> c.QueryBlockCount

\* Variant: the warmup queries are timed and recorded like the others.
WarmupLoopRecorded(c) ==
  Loop(c.WarmupQueries, "QueryRecord", "timed", "hash", "ignore", FALSE)

\* for i := 0; i < config.WarmupQueries; i++ { _, _ = QueryRecord(...) }
WarmupLoop(c) ==
  Loop(c.WarmupQueries, "QueryRecord", "warmup", "hash", "ignore", FALSE)

\* runPerformanceTest: the calls of one run, in the order of the source.
PerformanceTestProgram(c) ==
  <<Call("CountAllRecords", "setup", "none", "ignore", FALSE, "always", 0)>>
  \o Setup("CreateTable", "fatal")
  \o <<Call("TestIndexPerformance", "setup", "none", "ignore", FALSE,
            "hadData", 0)>>
  \o Setup("InsertRecords", "fatal")
  \o (IF c.TransactionCount = 0 THEN <<Panic>> ELSE <<>>)
  \o Setup("GetTailRecord", "fatal")
  \o WarmupLoop(c)
  \o Loop(c.QueryHashCount, "QueryRecord", "timed", "hash", "fatal", TRUE)
  \o <<Stats("hash")>>
  \o Loop(c.QueryFromCount, QueryOp("from"), "timed", "from", "fatal", TRUE)
  \o <<Stats("from")>>
  \o Loop(c.QueryToCount, QueryOp("to"), "timed", "to", "fatal", TRUE)
  \o <<Stats("to")>>
  \o Loop(c.QueryBlockCount, QueryOp("block"), "timed", "block", "fatal",
          TRUE)
  \o <<Stats("block")>>
  \o Count("CountRecords", "fatal")
  \o Count("CountRecordsTo", "fatal")
  \o Count("CountAllRecords", "fatal")

\* the query loop of runBenchmarkTest for one category
BenchmarkLoop(c, cat) ==
  Loop(QueryCount(c, cat), QueryOp(cat), "timed", cat, "ignore", FALSE)

\* runBenchmarkTest: the calls of one run, in the order of the source.
BenchmarkTestProgram(c) ==
  Setup("DropTable", "ignore")
  \o Setup(IF c.withIndexes THEN "CreateTable"
           ELSE "CreateTableWithoutIndexes", "fatal")
  \o Setup("InsertRecords", "fatal")
  \o (IF c.TransactionCount = 0 /\ c.QueryHashCount > 0
      THEN <<Panic>> ELSE <<>>)
  \o BenchmarkLoop(c, "hash")
  \o BenchmarkLoop(c, "from")
  \o BenchmarkLoop(c, "to")
  \o (IF c.TransactionCount = 0 /\ c.QueryBlockCount > 0
      THEN <<Panic>> ELSE <<>>)
  \o BenchmarkLoop(c, "block")
  \o Count("CountRecords", "ignore")
  \o Count("CountRecordsTo", "ignore")
  \o Count("CountAllRecords", "ignore")
  \o <<Stats("hash"), Stats("from"), Stats("to"), Stats("block")>>

\* one query section of runIndexPerformanceTest: if n > 0 { loop; stats }
IndexSection(c, cat) ==
  IF QueryCount(c, cat) > 0
  THEN Loop(QueryCount(c, cat), QueryOp(cat), "timed", cat, "fatal", FALSE)
       \o <<Stats(cat)>>
  ELSE <<>>

\* runIndexPerformanceTest: the calls of one run, in the order of the
\* source (the transactions of the model fill one block).
IndexPerformanceTestProgram(c) ==
  Setup("CreateTable", "fatal")
  \o (IF c.TransactionCount = 0 THEN <<Panic>> ELSE <<>>)
  \o Setup("InsertRecords", "fatal")
  \o IndexSection(c, "hash")
  \o IndexSection(c, "from")
  \o IndexSection(c, "to")
  \o IndexSection(c, "block")

Program(e, c) ==
  CASE e = "runPerformanceTest" -> PerformanceTestProgram(c)
    [] e = "runBenchmarkTest" -> BenchmarkTestProgram(c)
    [] OTHER -> IndexPerformanceTestProgram(c)

\* the configurations a run is started with
DriverConfigs ==
  {c \in [TransactionCount : 0..1, WarmupQueries : 0..MaxWarmup,
          QueryHashCount : 0..MaxQueries, QueryFromCount : 0..1,
          QueryToCount : 0..1, QueryBlockCount : 0..1,
          EnablePercentiles : {TRUE}, withIndexes : BOOLEAN] :
     c.QueryHashCount + c.QueryFromCount + c.QueryToCount
       + c.QueryBlockCount <= MaxQueries}

\* the runs of the model: only runPerformanceTest has a warmup phase and
\* only runBenchmarkTest has the withIndexes parameter
DriverRuns ==
  {r \in {"runPerformanceTest", "runBenchmarkTest",
          "runIndexPerformanceTest"} \X DriverConfigs :
     /\ r[1] # "runPerformanceTest" => r[2].WarmupQueries = 0
     /\ r[1] # "runBenchmarkTest" => r[2].withIndexes}

\* the run is started: nothing called, nothing measured
InitDriver ==
  /\ StatsIdle
  /\ MoreIdle
  /\ CompareIdle
  /\ ConnectIdle
  /\ \E r \in DriverRuns : entry = r[1] /\ cfg = r[2]
  /\ pc = 1
  /\ phase = "issue"
  /\ calls = <<>>
  /\ samples = NoSamples
  /\ reports = NoReports
  /\ outputs = <<>>
  /\ now = 0
  /\ queryStart = 0
  /\ timing = FALSE
  /\ inFlight = 0
  /\ halted = "running"
  /\ hadData = FALSE

program == Program(entry, cfg)

AtInstruction ==
  halted = "running" /\ pc <= Len(program)

Failures == Cardinality({k \in 1..Len(calls) : calls[k].ret.err # "nil"})

\* if countErr == nil && totalCount > 0 { TestIndexPerformance } : the
\* guarded call is passed over when the table was empty or the count failed
SkipCall ==
  /\ AtInstruction /\ phase = "issue"
  /\ program[pc].type = "call"
  /\ program[pc].cond = "hadData" /\ ~hadData
  /\ pc' = pc + 1
  /\ UNCHANGED <<entry, cfg, phase, calls, samples, reports, outputs, now,
                 queryStart, timing, inFlight, halted, hadData>>
  /\ UNCHANGED <<statsVars, compareVars, connectVars, moreVars>>

\* Variant: the next call is made without waiting for the one in flight.
IssueCallOverlapping ==
  /\ AtInstruction /\ phase \in {"issue", "return"}
  /\ program[pc].type = "call"
  /\ program[pc].cond = "hadData" => hadData
  /\ inFlight' = inFlight + 1
  /\ calls' = Append(calls, [op |-> program[pc].op, kind |-> program[pc].kind,
                             cat |-> program[pc].cat, issued |-> now,
                             returned |-> -1, scan |-> "pending",
                             ret |-> [record |-> "nil", err |-> "nil"]])
  /\ IF program[pc].kind = "timed"
     THEN queryStart' = now /\ timing' = TRUE
     ELSE UNCHANGED <<queryStart, timing>>
  /\ phase' = "return"
  /\ UNCHANGED <<entry, cfg, pc, samples, reports, outputs, now, halted,
                 hadData>>
  /\ UNCHANGED <<statsVars, compareVars, connectVars, moreVars>>

\* queryStart := time.Now() of a timed iteration, and the call is made
IssueCall ==
  /\ AtInstruction /\ phase = "issue"
  /\ program[pc].type = "call"
  /\ program[pc].cond = "hadData" => hadData
  /\ inFlight = 0
  /\ inFlight' = inFlight + 1
  /\ calls' = Append(calls, [op |-> program[pc].op, kind |-> program[pc].kind,
                             cat |-> program[pc].cat, issued |-> now,
                             returned |-> -1, scan |-> "pending",
                             ret |-> [record |-> "nil", err |-> "nil"]])
  /\ IF program[pc].kind = "timed"
     THEN queryStart' = now /\ timing' = TRUE
     ELSE UNCHANGED <<queryStart, timing>>
  /\ phase' = "return"
  /\ UNCHANGED <<entry, cfg, pc, samples, reports, outputs, now, halted,
                 hadData>>
  /\ UNCHANGED <<statsVars, compareVars, connectVars, moreVars>>

\* what the database may answer to the call in flight: a lookup finds its
\* row or none, a range query and the first count find rows or none, and
\* any call may fail in its execution
Answers(instr, k) ==
  (IF instr.op = "QueryRecord" THEN {"row", "ErrNoRows"}
   ELSE IF instr.kind = "timed" \/ (instr.op = "CountAllRecords" /\ k = 1)
        THEN {"row", "empty"}
        ELSE {"row"})
    \cup (IF Failures < MaxFailures THEN {"execerr"} ELSE {})

\* the call in flight returns; the k-th call of the run takes k ticks
ReturnCall ==
  /\ AtInstruction /\ phase = "return"
  /\ \E scan \in Answers(program[pc], Len(calls)) :
       LET k == Len(calls)
           r == IF program[pc].op = "QueryRecord" THEN QueryRecord(scan)
                ELSE OtherOperation(scan)
       IN /\ calls' = [calls EXCEPT ![k].returned = now + k,
                                    ![k].scan = scan, ![k].ret = r]
          /\ hadData' = IF k = 1 /\ program[pc].op = "CountAllRecords"
                        THEN r.err = "nil" /\ r.record = "found"
                        ELSE hadData
          /\ now' = now + k
  /\ inFlight' = inFlight - 1
  /\ phase' = IF program[pc].kind = "timed" THEN "measure" ELSE "check"
  /\ UNCHANGED <<entry, cfg, pc, samples, reports, outputs, queryStart,
                 timing, halted>>
  /\ UNCHANGED <<statsVars, compareVars, connectVars, moreVars>>

\* Variant: the duration is appended twice.
TakeDurationTwice ==
  /\ AtInstruction /\ phase = "measure"
  /\ samples' = [samples EXCEPT ![program[pc].cat] =
                   Append(Append(@, now - queryStart), now - queryStart)]
  /\ timing' = FALSE
  /\ phase' = "check"
  /\ UNCHANGED <<entry, cfg, pc, calls, reports, outputs, now, queryStart,
                 inFlight, halted, hadData>>
  /\ UNCHANGED <<statsVars, compareVars, connectVars, moreVars>>

\* Variant: the timer is read only after the iteration's printing.
TakeDurationLate ==
  /\ AtInstruction /\ phase = "measure"
  /\ samples' = [samples EXCEPT ![program[pc].cat] =
                   Append(@, now - queryStart)]
  /\ phase' = "check"
  /\ UNCHANGED <<entry, cfg, pc, calls, reports, outputs, now, queryStart,
                 timing, inFlight, halted, hadData>>
  /\ UNCHANGED <<statsVars, compareVars, connectVars, moreVars>>

\* duration := time.Since(queryStart); durations = append(durations, duration)
TakeDuration ==
  /\ AtInstruction /\ phase = "measure"
  /\ samples' = [samples EXCEPT ![program[pc].cat] =
                   Append(@, now - queryStart)]
  /\ timing' = FALSE
  /\ phase' = "check"
  /\ UNCHANGED <<entry, cfg, pc, calls, reports, outputs, now, queryStart,
                 inFlight, halted, hadData>>
  /\ UNCHANGED <<statsVars, compareVars, connectVars, moreVars>>

\* if err != nil { log.Fatalf(...) }, where the source has the check
\* (for QueryRecord: if err != nil && err != sql.ErrNoRows)
IsFatal(instr, ret) ==
  /\ instr.onErr = "fatal"
  /\ ret.err # "nil"
  /\ instr.op = "QueryRecord" => ret.err # "sql.ErrNoRows"

\* the rest of the iteration: the error check, then the printing of the
\* first iteration's sample, then i++
CheckCall ==
  /\ AtInstruction /\ phase = "check"
  /\ LET instr == program[pc]
         ret == calls[Len(calls)].ret
     IN IF IsFatal(instr, ret)
        THEN /\ halted' = "fatal"
             /\ UNCHANGED <<pc, phase, outputs>>
        ELSE /\ outputs' =
                  IF instr.sample /\ ret.record = "found"
                  THEN Append(outputs,
                              [cat |-> instr.cat, iter |-> instr.iter,
                               timing |-> timing,
                               recorded |-> Len(samples[instr.cat])])
                  ELSE outputs
             /\ pc' = pc + 1
             /\ phase' = "issue"
             /\ UNCHANGED halted
  /\ UNCHANGED <<entry, cfg, calls, samples, reports, now, queryStart,
                 timing, inFlight, hadData>>
  /\ UNCHANGED <<statsVars, compareVars, connectVars, moreVars>>

\* stats := calculateLatencyStats(durations, config.EnablePercentiles)
ComputeStats ==
  /\ AtInstruction /\ phase = "issue"
  /\ program[pc].type = "stats"
  /\ reports' = [reports EXCEPT ![program[pc].cat] =
                   <<calculateLatencyStats(samples[program[pc].cat],
                                           cfg.EnablePercentiles)>>]
  /\ pc' = pc + 1
  /\ UNCHANGED <<entry, cfg, phase, calls, samples, outputs, now, queryStart,
                 timing, inFlight, halted, hadData>>
  /\ UNCHANGED <<statsVars, compareVars, connectVars, moreVars>>

\* the run dies on an empty transaction slice
RuntimePanic ==
  /\ AtInstruction /\ phase = "issue"
  /\ program[pc].type = "panic"
  /\ halted' = "panic"
  /\ UNCHANGED <<entry, cfg, pc, phase, calls, samples, reports, outputs,
                 now, queryStart, timing, inFlight, hadData>>
  /\ UNCHANGED <<statsVars, compareVars, connectVars, moreVars>>

\* the function returns
Finish ==
  /\ halted = "running" /\ pc > Len(program)
  /\ halted' = "done"
  /\ UNCHANGED <<entry, cfg, pc, phase, calls, samples, reports, outputs,
                 now, queryStart, timing, inFlight, hadData>>
  /\ UNCHANGED <<statsVars, compareVars, connectVars, moreVars>>

NextDriver ==
  \/ SkipCall
  \/ IssueCall
  \/ ReturnCall
  \/ TakeDuration
  \/ CheckCall
  \/ ComputeStats
  \/ RuntimePanic
  \/ Finish

SpecDriver == InitDriver /\ [][NextDriver]_vars

(***************************************************************************)
(* The comparison of the two benchmark results.                            *)
(*                                                                         *)
(* runIndexBenchmarkComparison runs runBenchmarkTest with and without      *)
(* indexes and prints, per section, the two means and a speedup line, then *)
(* a summary.  The specification draws the means of the two results in     *)
(* Init and its action is the printing.  A float64 quotient is kept as the *)
(* pair of its operands; a pair whose den is 0 is the +Inf that Go's       *)
(* float division gives for a positive dividend.                           *)
(***************************************************************************)
\* The means of the model, in nanoseconds: none, and values whose quotients
\* lie below 1, at 1, between 1.1 and 1.5, at 1.5 and above it.  float64
\* sums of quotients are rounded; for these values every comparison of the
\* code against 1, 1.1 and 1.5 has the outcome of the exact arithmetic
\* (with 5 among them a mean of quotients of exactly 1.5 is computed as
\* 1.5000000000000002).
MeanValues == {0, 2, 3, 4}

CountValues == {0, 3}

BenchmarkResults ==
  {r \in [Sections -> MeanValues] : r["countFrom"] \in CountValues}

\* Variant: a variant slower than the baseline is reported as no change.
SpeedupClamped(without, with) ==
  [num |-> IF without < with THEN with ELSE without, den |-> with]

\* speedup := float64(without.Mean) / float64(with.Mean)
Speedup(without, with) == [num |-> without, den |-> with]

\* q > a/b, for a float64 quotient q and positive integers a, b
Exceeds(q, a, b) ==
  IF q.den = 0 THEN q.num > 0 ELSE q.num * b > a * q.den

\* the speedup line of one section: if without.Mean > 0 { Printf(...) }
SpeedupLine(without, with) ==
  IF without > 0
  THEN <<[speedup |-> Speedup(without, with),
          label |-> IF Exceeds(Speedup(without, with), 1, 1)
                    THEN "faster with indexes"
                    ELSE "slower with indexes (unexpected!)"]>>
  ELSE <<>>

\* Variant: a category counts as soon as its baseline mean is non-zero.
InAverageBaselineOnly(without, with) == without > 0

\* if without.Mean > 0 && with.Mean > 0 { avgSpeedup += ...; count++ }
InAverage(without, with) == without > 0 /\ with > 0

SummaryOrder == <<"hash", "from", "to", "block">>

\* avgSpeedup and count after the first n of the four if statements
RECURSIVE Accumulate(_, _, _)
Accumulate(without, with, n) ==
  IF n = 0 THEN [sum |-> [num |-> 0, den |-> 1], count |-> 0]
  ELSE LET acc == Accumulate(without, with, n - 1)
           cat == SummaryOrder[n]
           q == Speedup(without[cat], with[cat])
       IN IF InAverage(without[cat], with[cat])
          THEN [sum |-> [num |-> acc.sum.num * q.den + q.num * acc.sum.den,
                         den |-> acc.sum.den * q.den],
                count |-> acc.count + 1]
          ELSE acc

\* if avgSpeedup > 1.5 {...} else if avgSpeedup > 1.1 {...} else {...}
Classify(avg) ==
  IF Exceeds(avg, 3, 2) THEN "significant"
  ELSE IF Exceeds(avg, 11, 10) THEN "modest"
       ELSE "minimal or no"

\* the summary: if count > 0 { avgSpeedup /= float64(count); ... }
Summary(without, with) ==
  LET acc == Accumulate(without, with, Len(SummaryOrder))
      avg == [num |-> acc.sum.num, den |-> acc.sum.den * acc.count]
  IN IF acc.count > 0
     THEN <<[avgSpeedup |-> avg, count |-> acc.count,
             class |-> Classify(avg)]>>
     ELSE <<>>

InitCompare ==
  /\ StatsIdle
  /\ MoreIdle
  /\ DriverIdle
  /\ ConnectIdle
  /\ withIndexesResult \in BenchmarkResults
  /\ withoutIndexesResult \in BenchmarkResults
  /\ compared = FALSE
  /\ lines = NoLines
  /\ summary = <<>>

\* the printing of the comparison and of the summary
Compare ==
  /\ ~compared
  /\ compared' = TRUE
  /\ lines' = [s \in Sections |->
                 SpeedupLine(withoutIndexesResult[s], withIndexesResult[s])]
  /\ summary' = Summary(withoutIndexesResult, withIndexesResult)
  /\ UNCHANGED <<withIndexesResult, withoutIndexesResult>>
  /\ UNCHANGED <<statsVars, driverVars, connectVars, moreVars>>

NextCompare == Compare

SpecCompare == InitCompare /\ [][NextCompare]_vars

(***************************************************************************)
(* The database connection.                                                *)
(*                                                                         *)
(* ConnectDB (package IMMUDB) runs its initialisation under a sync.Once    *)
(* and returns the package variables db and err.  Once.Do reads its done   *)
(* flag; if it is not set, it takes the mutex of the Once, reads the flag  *)
(* again, runs the function if it is still not set, sets the flag and      *)
(* releases the mutex.  The callers are goroutines: any of them takes the  *)
(* next step.  A handle is the number of the OpenDB call that made it, and *)
(* 0 is the nil handle.                                                    *)
(***************************************************************************)
InitConnect ==
  /\ StatsIdle
  /\ MoreIdle
  /\ DriverIdle
  /\ CompareIdle
  /\ db = 0
  /\ err = "nil"
  /\ onceDone = FALSE
  /\ onceMutex = 0
  /\ opened = 0
  /\ initRuns = 0
  /\ callerPc = [p \in Callers |-> "idle"]
  /\ callsMade = [p \in Callers |-> 0]
  /\ returned = {}

Others == <<statsVars, driverVars, compareVars, moreVars>>

\* a goroutine calls ConnectDB()
CallConnectDB(p) ==
  /\ callerPc[p] = "idle" /\ callsMade[p] < MaxCallsEach
  /\ callsMade' = [callsMade EXCEPT ![p] = @ + 1]
  /\ callerPc' = [callerPc EXCEPT ![p] = "do"]
  /\ UNCHANGED <<db, err, onceDone, onceMutex, opened, initRuns, returned>>
  /\ UNCHANGED Others

\* once.Do: the flag is read; if set, Do returns at once
OnceDo(p) ==
  /\ callerPc[p] = "do"
  /\ callerPc' = [callerPc EXCEPT ![p] =
                    IF onceDone THEN "return" ELSE "lock"]
  /\ UNCHANGED <<db, err, onceDone, onceMutex, opened, initRuns, callsMade,
                 returned>>
  /\ UNCHANGED Others

\* Variant: the function is run by whoever gets the mutex.
OnceLockNoSecondLook(p) ==
  /\ callerPc[p] = "lock" /\ onceMutex = 0
  /\ onceMutex' = p
  /\ callerPc' = [callerPc EXCEPT ![p] = "create"]
  /\ initRuns' = initRuns + 1
  /\ UNCHANGED <<db, err, onceDone, opened, callsMade, returned>>
  /\ UNCHANGED Others

\* the mutex is taken and the flag read again; the function is entered if
\* it is still not set
OnceLock(p) ==
  /\ callerPc[p] = "lock" /\ onceMutex = 0
  /\ onceMutex' = p
  /\ callerPc' = [callerPc EXCEPT ![p] =
                    IF onceDone THEN "unlock" ELSE "create"]
  /\ initRuns' = IF onceDone THEN initRuns ELSE initRuns + 1
  /\ UNCHANGED <<db, err, onceDone, opened, callsMade, returned>>
  /\ UNCHANGED Others

\* if err = createDatabaseIfNotExists(...); err != nil { return }
CreateDatabase(p) ==
  /\ callerPc[p] = "create"
  /\ \E ok \in BOOLEAN :
       /\ err' = IF ok THEN "nil" ELSE "failed to create database"
       /\ callerPc' = [callerPc EXCEPT ![p] = IF ok THEN "open" ELSE "unlock"]
  /\ UNCHANGED <<db, onceDone, onceMutex, opened, initRuns, callsMade,
                 returned>>
  /\ UNCHANGED Others

\* db = stdlib.OpenDB(opts)
OpenDB(p) ==
  /\ callerPc[p] = "open"
  /\ opened' = opened + 1
  /\ db' = opened + 1
  /\ callerPc' = [callerPc EXCEPT ![p] = "ping"]
  /\ UNCHANGED <<err, onceDone, onceMutex, initRuns, callsMade, returned>>
  /\ UNCHANGED Others

\* Variant: the handle is kept when the ping fails.
PingKeepsHandle(p) ==
  /\ callerPc[p] = "ping"
  /\ \E ok \in BOOLEAN :
       /\ err' = IF ok THEN "nil" ELSE "ping failed"
       /\ db' = db
  /\ callerPc' = [callerPc EXCEPT ![p] = "unlock"]
  /\ UNCHANGED <<onceDone, onceMutex, opened, initRuns, callsMade, returned>>
  /\ UNCHANGED Others

\* if err = db.Ping(); err != nil { db.Close(); db = nil; return }
Ping(p) ==
  /\ callerPc[p] = "ping"
  /\ \E ok \in BOOLEAN :
       /\ err' = IF ok THEN "nil" ELSE "ping failed"
       /\ db' = IF ok THEN db ELSE 0
  /\ callerPc' = [callerPc EXCEPT ![p] = "unlock"]
  /\ UNCHANGED <<onceDone, onceMutex, opened, initRuns, callsMade, returned>>
  /\ UNCHANGED Others

\* the deferred steps of Once: the flag is set, the mutex released
OnceUnlock(p) ==
  /\ callerPc[p] = "unlock" /\ onceMutex = p
  /\ onceDone' = TRUE
  /\ onceMutex' = 0
  /\ callerPc' = [callerPc EXCEPT ![p] = "return"]
  /\ UNCHANGED <<db, err, opened, initRuns, callsMade, returned>>
  /\ UNCHANGED Others

\* return db, err
ReturnDB(p) ==
  /\ callerPc[p] = "return"
  /\ returned' = returned \cup {[db |-> db, err |-> err]}
  /\ callerPc' = [callerPc EXCEPT ![p] = "idle"]
  /\ UNCHANGED <<db, err, onceDone, onceMutex, opened, initRuns, callsMade>>
  /\ UNCHANGED Others

NextConnect ==
  \E p \in Callers :
    \/ CallConnectDB(p)
    \/ OnceDo(p)
    \/ OnceLock(p)
    \/ CreateDatabase(p)
    \/ OpenDB(p)
    \/ Ping(p)
    \/ OnceUnlock(p)
    \/ ReturnDB(p)

SpecConnect == InitConnect /\ [][NextConnect]_vars

(***************************************************************************)
(* The query counts of runIndexPerformanceTest.                            *)
(*                                                                         *)
(* hashQueryCount := int(float64(config.RandomReadCount) *                 *)
(* config.ReadHashRatio), the like for FROM and TO, and the block queries  *)
(* are the remainder.  A ratio is kept as its numerator over RatioScale.   *)
(* The float64 product is rounded before int() truncates it: for the       *)
(* ratios k/20 it is the floor of the exact product for every count below  *)
(* 180 (180 * 0.35 is computed as 62.99999999999999), so that within       *)
(* MaxReads the truncation below is the one of the code.                   *)
(***************************************************************************)
\* Variant: the product is rounded to the nearest integer.
TruncatedProductRounded(n, ratio) ==
  (2 * n * ratio + RatioScale) \div (2 * RatioScale)

\* int(float64(n) * ratio)
TruncatedProduct(n, ratio) == (n * ratio) \div RatioScale

\* lines 1140-1143
QueryCounts(n, ratios) ==
  LET hashQueryCount == TruncatedProduct(n, ratios.hash)
      fromQueryCount == TruncatedProduct(n, ratios.from)
      toQueryCount == TruncatedProduct(n, ratios.to)
  IN [hash |-> hashQueryCount, from |-> fromQueryCount, to |-> toQueryCount,
      block |-> n - hashQueryCount - fromQueryCount - toQueryCount]

\* ratios in [0, 1] of which the sum is at most 1
ReadRatios ==
  {r \in [hash : 0..RatioScale, from : 0..RatioScale, to : 0..RatioScale] :
     r.hash + r.from + r.to <= RatioScale}

countsOthers == <<statsVars, driverVars, compareVars, connectVars,
                  tableVars, generateVars, insertVars, datasetVars>>

InitCounts ==
  /\ StatsIdle
  /\ DriverIdle
  /\ CompareIdle
  /\ ConnectIdle
  /\ MoreIdleExcept("counts")
  /\ RandomReadCount \in 0..MaxReads
  /\ readRatios \in ReadRatios
  /\ queryCounts = [hash |-> 0, from |-> 0, to |-> 0, block |-> 0]
  /\ counted = FALSE

\* the query breakdown is computed
ComputeQueryCounts ==
  /\ ~counted
  /\ queryCounts' = QueryCounts(RandomReadCount, readRatios)
  /\ counted' = TRUE
  /\ UNCHANGED <<RandomReadCount, readRatios>>
  /\ UNCHANGED countsOthers

NextCounts == ComputeQueryCounts

SpecCounts == InitCounts /\ [][NextCounts]_vars

(***************************************************************************)
(* The set-up of the table.                                                *)
(*                                                                         *)
(* runBenchmarkTest drops the table, creates it with CreateTable or with   *)
(* CreateTableWithoutIndexes and inserts; runPerformanceTest counts the    *)
(* rows, calls CreateTable and inserts.  CreateTable creates the table,    *)
(* counts its rows and, unless the count succeeded and found rows, sends   *)
(* the four CREATE INDEX statements.  The database is the collaborator:    *)
(* every statement has the effect of a statement that succeeds, or is      *)
(* refused for the state of the table (it exists, it does not exist, it    *)
(* has rows), or fails in its execution.  statements is the log of what    *)
(* was sent, with the rows and the indexes of the table at that moment.    *)
(***************************************************************************)
\* the columns of the indexSQLs of CreateTable, in their order
IndexColumns == <<"transactionHash", "fromAddr", "toAddr", "blockNumber">>

AllIndexes == {IndexColumns[i] : i \in 1..Len(IndexColumns)}

Statement(sql, column, result) ==
  [sql |-> sql, column |-> column, rows |-> rows, indexes |-> indexes,
   result |-> result]

StatementFailures ==
  Cardinality({k \in 1..Len(statements) : statements[k].result = "failed"})

\* an execution failure is still within the bound
MayFail == StatementFailures < MaxFailures

tableOthers == <<statsVars, driverVars, compareVars, connectVars,
                 countsVars, generateVars, insertVars, datasetVars>>

\* the table a run finds: none, or one left by an earlier run, with all
\* indexes or with none
InitTable ==
  /\ StatsIdle
  /\ DriverIdle
  /\ CompareIdle
  /\ ConnectIdle
  /\ MoreIdleExcept("table")
  /\ tableEntry \in {"runPerformanceTest", "runBenchmarkTest"}
  /\ withIndexes \in BOOLEAN
  /\ tableEntry = "runPerformanceTest" => withIndexes
  /\ tablePc = IF tableEntry = "runBenchmarkTest" THEN "drop" ELSE "count"
  /\ tableExists \in BOOLEAN
  /\ rows \in 0..MaxRows
  /\ indexes \in {{}, AllIndexes}
  /\ ~tableExists => (rows = 0 /\ indexes = {})
  /\ statements = <<>>
  /\ nextIndex = 1

\* runBenchmarkTest: tableOps.DropTable(ctx, ...), its error discarded.
\* DropTable itself returns nil for "does not exist".
DropTable ==
  /\ tablePc = "drop"
  /\ \/ /\ tableExists
        /\ statements' = Append(statements, Statement("DROP TABLE", "", "ok"))
        /\ tableExists' = FALSE
        /\ rows' = 0
        /\ indexes' = {}
     \/ /\ ~tableExists
        /\ statements' = Append(statements,
                                Statement("DROP TABLE", "", "does not exist"))
        /\ UNCHANGED <<tableExists, rows, indexes>>
     \/ /\ MayFail
        /\ statements' = Append(statements,
                                Statement("DROP TABLE", "", "failed"))
        /\ UNCHANGED <<tableExists, rows, indexes>>
  /\ tablePc' = "create"
  /\ UNCHANGED <<tableEntry, withIndexes, nextIndex>>
  /\ UNCHANGED tableOthers

\* runPerformanceTest: totalCount, countErr := CountAllRecords(ctx), which
\* decides on a warning only
CountBeforeCreate ==
  /\ tablePc = "count"
  /\ \/ /\ tableExists
        /\ statements' = Append(statements,
                                Statement("SELECT COUNT", "", "ok"))
     \/ /\ ~tableExists \/ MayFail
        /\ statements' = Append(statements,
                                Statement("SELECT COUNT", "", "failed"))
  /\ tablePc' = "create"
  /\ UNCHANGED <<tableEntry, withIndexes, tableExists, rows, indexes,
                 nextIndex>>
  /\ UNCHANGED tableOthers

\* the CREATE TABLE statement of CreateTable and CreateTableWithoutIndexes:
\* "already exists" is not an error, any other failure is returned and is
\* fatal to the run
CreateTableStatement ==
  /\ tablePc = "create"
  /\ \/ /\ ~tableExists
        /\ statements' = Append(statements,
                                Statement("CREATE TABLE", "", "ok"))
        /\ tableExists' = TRUE
        /\ tablePc' = IF withIndexes THEN "rowCount" ELSE "insert"
        /\ UNCHANGED <<rows, indexes>>
     \/ /\ tableExists
        /\ statements' = Append(statements,
                                Statement("CREATE TABLE", "", "already exists"))
        /\ tablePc' = IF withIndexes THEN "rowCount" ELSE "insert"
        /\ UNCHANGED <<tableExists, rows, indexes>>
     \/ /\ MayFail
        /\ statements' = Append(statements,
                                Statement("CREATE TABLE", "", "failed"))
        /\ tablePc' = "fatal"
        /\ UNCHANGED <<tableExists, rows, indexes>>
  /\ UNCHANGED <<tableEntry, withIndexes, nextIndex>>
  /\ UNCHANGED tableOthers

\* CreateTable: rowCount, countErr := t.CountAllRecords(ctx);
\* if countErr == nil && rowCount > 0 { return nil }
CountRows ==
  /\ tablePc = "rowCount"
  /\ \/ /\ statements' = Append(statements,
                                Statement("SELECT COUNT", "", "ok"))
        /\ tablePc' = IF rows > 0 THEN "insert" ELSE "index"
     \/ /\ MayFail
        /\ statements' = Append(statements,
                                Statement("SELECT COUNT", "", "failed"))
        /\ tablePc' = "index"
  /\ UNCHANGED <<tableEntry, withIndexes, tableExists, rows, indexes,
                 nextIndex>>
  /\ UNCHANGED tableOthers

\* CreateTable: one turn of the loop over indexSQLs.  A failure of the
\* statement is a warning; CreateTable returns nil after the loop.  The
\* database adds an index to an empty table only.
CreateIndex ==
  /\ tablePc = "index"
  /\ LET column == IndexColumns[nextIndex]
     IN \/ /\ column \in indexes
           /\ statements' = Append(statements,
                  Statement("CREATE INDEX", column, "already exists"))
           /\ UNCHANGED indexes
        \/ /\ column \notin indexes /\ rows > 0
           /\ statements' = Append(statements,
                  Statement("CREATE INDEX", column, "table not empty"))
           /\ UNCHANGED indexes
        \/ /\ column \notin indexes /\ rows = 0
           /\ statements' = Append(statements,
                  Statement("CREATE INDEX", column, "ok"))
           /\ indexes' = indexes \cup {column}
        \/ /\ MayFail
           /\ statements' = Append(statements,
                  Statement("CREATE INDEX", column, "failed"))
           /\ UNCHANGED indexes
  /\ IF nextIndex < Len(IndexColumns)
     THEN nextIndex' = nextIndex + 1 /\ UNCHANGED tablePc
     ELSE tablePc' = "insert" /\ UNCHANGED nextIndex
  /\ UNCHANGED <<tableEntry, withIndexes, tableExists, rows>>
  /\ UNCHANGED tableOthers

\* err := tableOps.InsertRecords(ctx, transactions): the first batch
InsertFirstBatch ==
  /\ tablePc = "insert"
  /\ \/ /\ statements' = Append(statements, Statement("INSERT", "", "ok"))
        /\ rows' = rows + 1
        /\ tablePc' = "end"
     \/ /\ MayFail
        /\ statements' = Append(statements, Statement("INSERT", "", "failed"))
        /\ tablePc' = "fatal"
        /\ UNCHANGED rows
  /\ UNCHANGED <<tableEntry, withIndexes, tableExists, indexes, nextIndex>>
  /\ UNCHANGED tableOthers

NextTable ==
  \/ DropTable
  \/ CountBeforeCreate
  \/ CreateTableStatement
  \/ CountRows
  \/ CreateIndex
  \/ InsertFirstBatch

SpecTable == InitTable /\ [][NextTable]_vars

(***************************************************************************)
(* generateBlockBasedTransactions.                                         *)
(*                                                                         *)
(* One action is one turn of the loop.  Of a record the block number and   *)
(* the index in the block are kept; the hashes are random and the          *)
(* addresses and the timestamp do not depend on the blocks.                *)
(***************************************************************************)
StartBlocks == {0, 50}

\* Variant: a block is full only when it holds more than txnsPerBlock.
BlockIsFullLate(inBlock, perBlock) == inBlock > perBlock

\* if txnsInCurrentBlock >= txnsPerBlock
BlockIsFull(inBlock, perBlock) == inBlock >= perBlock

generateOthers == <<statsVars, driverVars, compareVars, connectVars,
                    countsVars, tableVars, insertVars, datasetVars>>

InitGenerate ==
  /\ StatsIdle
  /\ DriverIdle
  /\ CompareIdle
  /\ ConnectIdle
  /\ MoreIdleExcept("generate")
  /\ totalTxns \in 0..MaxTxns
  /\ txnsPerBlock \in 0..MaxPerBlock
  /\ startBlock \in StartBlocks
  /\ loopIndex = 0
  /\ currentBlock = startBlock
  /\ txnsInCurrentBlock = 0
  /\ transactions = <<>>
  /\ generated = FALSE

\* one turn of for i := 0; i < totalTxns; i++
GenerateOne ==
  /\ ~generated
  /\ loopIndex < totalTxns
  /\ LET full == BlockIsFull(txnsInCurrentBlock, txnsPerBlock)
         block == IF full THEN currentBlock + 1 ELSE currentBlock
         inBlock == IF full THEN 0 ELSE txnsInCurrentBlock
     IN /\ currentBlock' = block
        /\ transactions' = Append(transactions,
                                  [BlockNumber |-> block,
                                   TxBlockIndex |-> inBlock])
        /\ txnsInCurrentBlock' = inBlock + 1
  /\ loopIndex' = loopIndex + 1
  /\ UNCHANGED <<totalTxns, txnsPerBlock, startBlock, generated>>
  /\ UNCHANGED generateOthers

\* return transactions
GenerateReturn ==
  /\ ~generated
  /\ loopIndex >= totalTxns
  /\ generated' = TRUE
  /\ UNCHANGED <<totalTxns, txnsPerBlock, startBlock, loopIndex, currentBlock,
                 txnsInCurrentBlock, transactions>>
  /\ UNCHANGED generateOthers

NextGenerate ==
  \/ GenerateOne
  \/ GenerateReturn

SpecGenerate == InitGenerate /\ [][NextGenerate]_vars

(***************************************************************************)
(* InsertRecords.                                                          *)
(*                                                                         *)
(* One action is one turn of the loop: one call of insertBatch, which      *)
(* sends one INSERT statement with all records of the batch.  The          *)
(* statement inserts all of them or fails and inserts none.  batches is    *)
(* the log of the statements sent, inserted the rows in the table.  An     *)
(* error is the pair of indexes of its message, <<>> is nil.               *)
(***************************************************************************)
\* batchSize := 200
batchSize == 200

Min(a, b) == IF a < b THEN a ELSE b

\* end := i + batchSize; if end > totalRecords { end = totalRecords }
BatchEnd(i, totalRecords) == Min(i + batchSize, totalRecords)

\* Variant: the next batch starts at the last record of this one.
NextBatchStartOverlapping(i) == i + batchSize - 1

\* i += batchSize
NextBatchStart(i) == i + batchSize

\* records[i:end]
Slice(s, i, end) == SubSeq(s, i + 1, end)

insertOthers == <<statsVars, driverVars, compareVars, connectVars,
                  countsVars, tableVars, generateVars, datasetVars>>

InitInsert ==
  /\ StatsIdle
  /\ DriverIdle
  /\ CompareIdle
  /\ ConnectIdle
  /\ MoreIdleExcept("insert")
  /\ \E n \in 0..MaxRecords : records = [k \in 1..n |-> k]
  /\ batchStart = 0
  /\ batches = <<>>
  /\ inserted = <<>>
  /\ insertErr = <<>>
  /\ insertReturned = FALSE

\* Variant: a batch that fails is skipped and the loop goes on.
SendBatchSkippingFailures ==
  /\ ~insertReturned
  /\ Len(records) # 0
  /\ batchStart < Len(records)
  /\ LET end == BatchEnd(batchStart, Len(records))
         batch == Slice(records, batchStart, end)
     IN \/ /\ batches' = Append(batches, [from |-> batchStart, to |-> end - 1,
                                          records |-> batch, result |-> "ok"])
           /\ inserted' = inserted \o batch
        \/ /\ batches' = Append(batches, [from |-> batchStart, to |-> end - 1,
                                          records |-> batch,
                                          result |-> "failed"])
           /\ UNCHANGED inserted
  /\ batchStart' = NextBatchStart(batchStart)
  /\ UNCHANGED <<records, insertErr, insertReturned>>
  /\ UNCHANGED insertOthers

\* one turn of for i := 0; i < totalRecords; i += batchSize, with the
\* return of the error of insertBatch
SendBatch ==
  /\ ~insertReturned
  /\ Len(records) # 0
  /\ batchStart < Len(records)
  /\ LET end == BatchEnd(batchStart, Len(records))
         batch == Slice(records, batchStart, end)
     IN \/ /\ batches' = Append(batches, [from |-> batchStart, to |-> end - 1,
                                          records |-> batch, result |-> "ok"])
           /\ inserted' = inserted \o batch
           /\ batchStart' = NextBatchStart(batchStart)
           /\ UNCHANGED <<insertErr, insertReturned>>
        \/ /\ batches' = Append(batches, [from |-> batchStart, to |-> end - 1,
                                          records |-> batch,
                                          result |-> "failed"])
           /\ insertErr' = <<batchStart, end - 1>>
           /\ insertReturned' = TRUE
           /\ UNCHANGED <<inserted, batchStart>>
  /\ UNCHANGED records
  /\ UNCHANGED insertOthers

\* if len(records) == 0 { return nil }, and the return nil after the loop
InsertReturn ==
  /\ ~insertReturned
  /\ Len(records) = 0 \/ batchStart >= Len(records)
  /\ insertReturned' = TRUE
  /\ UNCHANGED <<records, batchStart, batches, inserted, insertErr>>
  /\ UNCHANGED insertOthers

NextInsert ==
  \/ SendBatch
  \/ InsertReturn

SpecInsert == InitInsert /\ [][NextInsert]_vars

(***************************************************************************)
(* The datasets and queries of runIndexBenchmarkComparison.                *)
(*                                                                         *)
(* runIndexBenchmarkComparison calls runBenchmarkTest(config, true) and    *)
(* then runBenchmarkTest(config, false).  Each call generates its records  *)
(* with generateTestTransactions, inserts them and runs the four query     *)
(* loops.  generateTransactionHash and generateRandomBlockNumber read      *)
(* crypto/rand: their values are choices.  runDatasets and runQueries      *)
(* keep, per finished run, the records inserted and the arguments sent.    *)
(***************************************************************************)
\* var testAddresses
testAddresses ==
  << "0x742d35Cc6634C0532925a3b844Bc9e7595f0bEb0",
     "0x8ba1f109551bD432803012645Aac136c22C929E7",
     "0x1234567890123456789012345678901234567890",
     "0xabcdefabcdefabcdefabcdefabcdefabcdefabcd",
     "0xfedcba9876543210fedcba9876543210fedcba98" >>

\* values generateTransactionHash can return
TransactionHashes == {"0xaa", "0xbb"}

\* config.BlockNumberMin .. config.BlockNumberMax
BlockNumbers == {100, 101}

\* testAddresses[i%len(testAddresses)], transactions[i%len(transactions)]
AtModulo(s, i) == s[(i % Len(s)) + 1]

QueryLoops == <<"hash", "from", "to", "block">>

\* the argument of the i-th query of a loop
QueryArgument(loop, i, txns) ==
  CASE loop = "hash" -> AtModulo(txns, i).TransactionHash
    [] loop = "from" -> AtModulo(testAddresses, i)
    [] loop = "to" -> AtModulo(testAddresses, i)
    [] loop = "block" -> AtModulo(txns, i).BlockNumber

datasetOthers == <<statsVars, driverVars, compareVars, connectVars,
                   countsVars, tableVars, generateVars, insertVars>>

InitDataset ==
  /\ StatsIdle
  /\ DriverIdle
  /\ CompareIdle
  /\ ConnectIdle
  /\ MoreIdleExcept("dataset")
  /\ benchConfig \in [TransactionCount : 1..MaxTransactions,
                      QueryCount : 1..MaxLoopQueries]
  /\ benchRun = 1
  /\ benchPc = "generate"
  /\ benchTransactions = <<>>
  /\ runDatasets = <<>>
  /\ runQueries = <<>>
  /\ benchQueries = NoQueries

\* generateTestTransactions: one turn of its loop
GenerateTestTransaction ==
  /\ benchPc = "generate"
  /\ Len(benchTransactions) < benchConfig.TransactionCount
  /\ LET i == Len(benchTransactions)
     IN \E txHash \in TransactionHashes, blockNumber \in BlockNumbers :
          benchTransactions' = Append(benchTransactions,
            [From |-> AtModulo(testAddresses, i),
             To |-> AtModulo(testAddresses, i + 1),
             BlockNumber |-> blockNumber,
             TransactionHash |-> txHash,
             TxBlockIndex |-> i % 100])
  /\ UNCHANGED <<benchConfig, benchRun, benchPc, runDatasets, runQueries,
                 benchQueries>>
  /\ UNCHANGED datasetOthers

\* err := tableOps.InsertRecords(ctx, transactions)
InsertDataset ==
  /\ benchPc = "generate"
  /\ Len(benchTransactions) = benchConfig.TransactionCount
  /\ runDatasets' = Append(runDatasets, benchTransactions)
  /\ benchPc' = "queries"
  /\ UNCHANGED <<benchConfig, benchRun, benchTransactions, runQueries,
                 benchQueries>>
  /\ UNCHANGED datasetOthers

\* the loop that is running: the first that has not sent all its queries
CurrentLoop ==
  LET open == {k \in 1..Len(QueryLoops) :
                 Len(benchQueries[QueryLoops[k]]) < benchConfig.QueryCount}
  IN IF open = {} THEN "none"
     ELSE QueryLoops[CHOOSE k \in open : \A j \in open : k <= j]

\* one query of one of the four loops
SendQuery ==
  /\ benchPc = "queries"
  /\ CurrentLoop # "none"
  /\ LET loop == CurrentLoop
         i == Len(benchQueries[loop])
     IN benchQueries' =
          [benchQueries EXCEPT ![loop] =
             Append(@, QueryArgument(loop, i, benchTransactions))]
  /\ UNCHANGED <<benchConfig, benchRun, benchPc, benchTransactions,
                 runDatasets, runQueries>>
  /\ UNCHANGED datasetOthers

\* runBenchmarkTest returns; the second call follows the first
EndRun ==
  /\ benchPc = "queries"
  /\ CurrentLoop = "none"
  /\ runQueries' = Append(runQueries, benchQueries)
  /\ benchRun' = benchRun + 1
  /\ benchPc' = IF benchRun = 1 THEN "generate" ELSE "done"
  /\ benchTransactions' = <<>>
  /\ benchQueries' = NoQueries
  /\ UNCHANGED <<benchConfig, runDatasets>>
  /\ UNCHANGED datasetOthers

NextDataset ==
  \/ GenerateTestTransaction
  \/ InsertDataset
  \/ SendQuery
  \/ EndRun

SpecDataset == InitDataset /\ [][NextDataset]_vars

(***************************************************************************)
(* Properties of the report.  They are stated on the samples handed in,    *)
(* not on the operators above.                                             *)
(***************************************************************************)
\* how often v occurs in d
Occurrences(d, v) == Cardinality({i \in 1..Len(d) : d[i] = v})

\* v is the element at 0-based index k of the ascending arrangement of d
IsAtRank(d, v, k) ==
  /\ \E i \in 1..Len(d) : d[i] = v
  /\ Cardinality({i \in 1..Len(d) : d[i] < v}) <= k
  /\ k < Cardinality({i \in 1..Len(d) : d[i] <= v})

\* k = floor(n * pm / 1000), or the last index when that is beyond the slice
IsFloorIndex(k, n, pm) ==
  \/ k * 1000 <= n * pm /\ n * pm < (k + 1) * 1000 /\ k < n
  \/ k = n - 1 /\ n * pm >= n * 1000

IsAscending(s) == \A i \in 1..(Len(s) - 1) : s[i] <= s[i + 1]

\* the sum of the samples d[lo] .. d[hi], in the order handed in
RECURSIVE SumOfSamples(_, _, _)
SumOfSamples(d, lo, hi) ==
  IF lo > hi THEN 0
  ELSE IF lo = hi THEN d[lo]
  ELSE SumOfSamples(d, lo, (lo + hi) \div 2)
         + SumOfSamples(d, ((lo + hi) \div 2) + 1, hi)

\* q is total / n with the quotient truncated toward zero
IsTruncatedQuotient(q, total, n) ==
  IF total >= 0
  THEN q * n <= total /\ total < (q + 1) * n
  ELSE total <= q * n /\ (q - 1) * n < total

PercentileFields ==
  {<<"P50", 500>>, <<"P95", 950>>, <<"P99", 990>>, <<"P999", 999>>}

\* C1: with enablePercentiles = true, the report of a non-empty sample set
\* has Min <= P50 <= P95 <= P99 <= P999 <= Max.
C1_PercentilesOrdered ==
  (called /\ enablePercentiles /\ Len(durations) > 0) =>
    /\ stats.Min <= stats.P50
    /\ stats.P50 <= stats.P95
    /\ stats.P95 <= stats.P99
    /\ stats.P99 <= stats.P999
    /\ stats.P999 <= stats.Max

\* a report in which the six values are all different
C1_Witness ==
  /\ called /\ enablePercentiles
  /\ stats.Min < stats.P50 /\ stats.P50 < stats.P95
  /\ stats.P95 < stats.P99 /\ stats.P99 < stats.P999
  /\ stats.P999 < stats.Max
  /\ \E i \in 1..Len(durations) : durations[i] < 0

\* C2: the report of a non-empty sample set has Min <= Mean <= Max, Mean
\* being Total / Count truncated (negative durations included).
C2_MeanBetweenMinAndMax ==
  (called /\ Len(durations) > 0) =>
    /\ stats.Min <= stats.Mean
    /\ stats.Mean <= stats.Max

\* a negative total that Count does not divide, Min and Max apart
C2_Witness ==
  /\ called
  /\ stats.Total < 0
  /\ stats.Mean * stats.Count # stats.Total
  /\ stats.Min < stats.Mean /\ stats.Mean < stats.Max

\* C3: each percentile of the report is the element of the ascending
\* arrangement at index floor(n * p), clamped to n - 1 (nearest rank with
\* truncation); the ten samples 10ms .. 100ms give P50 = 60ms, P95 = 100ms.
C3_PercentileIsFloorRank ==
  (called /\ enablePercentiles /\ Len(durations) > 0) =>
    /\ \A f \in PercentileFields :
         \E k \in 0..(Len(durations) - 1) :
           /\ IsFloorIndex(k, Len(durations), f[2])
           /\ IsAtRank(durations, stats[f[1]], k)
    /\ durations = TenSamples => (stats.P50 = 60 /\ stats.P95 = 100)

\* the ten samples of the example, and a slice long enough for P999 to be
\* another element than the last
C3_Witness ==
  /\ called /\ enablePercentiles
  /\ \/ durations = TenSamples /\ stats.P50 = 60
     \/ Len(durations) > 1000 /\ stats.P999 < stats.Max

\* C4: for the empty sample set the report is the zero-valued one, with
\* either value of the flag.
C4_EmptyGivesZeroReport ==
  /\ (called /\ Len(durations) = 0) =>
       /\ stats.Count = 0 /\ stats.Min = 0 /\ stats.Max = 0
       /\ stats.Mean = 0 /\ stats.Total = 0
       /\ stats.P50 = 0 /\ stats.P95 = 0 /\ stats.P99 = 0 /\ stats.P999 = 0
       /\ stats.Durations = <<>>
  /\ (permCalled /\ Len(permuted) = 0) =>
       /\ permStats.Count = 0 /\ permStats.Min = 0 /\ permStats.Max = 0
       /\ permStats.Mean = 0 /\ permStats.Total = 0
       /\ permStats.P50 = 0 /\ permStats.P95 = 0 /\ permStats.P99 = 0
       /\ permStats.P999 = 0
       /\ permStats.Durations = <<>>

\* both calls made on the empty slice, one with each value of the flag
C4_Witness ==
  /\ called /\ permCalled
  /\ durations = <<>> /\ permuted = <<>>
  /\ enablePercentiles /\ ~permEnable

\* C5 as stated: for a sample set of one element x, Min, Max, Mean, P50,
\* P95, P99 and P999 all equal x whatever the enablePercentiles flag.
C5_AllEqualWhateverTheFlag ==
  (called /\ Len(durations) = 1) =>
    /\ stats.Min = durations[1] /\ stats.Max = durations[1]
    /\ stats.Mean = durations[1] /\ stats.P50 = durations[1]
    /\ stats.P95 = durations[1] /\ stats.P99 = durations[1]
    /\ stats.P999 = durations[1]

\* C5 (amended): for a sample set of one element x, Min, Max, Mean and P50
\* equal x whatever the flag; P95, P99 and P999 equal x when
\* enablePercentiles is true and are zero when it is false.
C5_SingleSample ==
  (called /\ Len(durations) = 1) =>
    /\ stats.Min = durations[1] /\ stats.Max = durations[1]
    /\ stats.Mean = durations[1] /\ stats.P50 = durations[1]
    /\ enablePercentiles =>
         /\ stats.P95 = durations[1] /\ stats.P99 = durations[1]
         /\ stats.P999 = durations[1]
    /\ ~enablePercentiles =>
         stats.P95 = 0 /\ stats.P99 = 0 /\ stats.P999 = 0

\* one non-zero sample, percentiles disabled: P50 is the sample, P95 is not
C5_Witness ==
  /\ called /\ ~enablePercentiles
  /\ Len(durations) = 1 /\ durations[1] # 0
  /\ stats.P50 = durations[1] /\ stats.P95 # durations[1]

\* C6: the reports of a sample set and of any reordering of it are
\* identical (all ten fields), for the same enablePercentiles flag.
C6_OrderIndependent ==
  (called /\ permCalled /\ permEnable = enablePercentiles) =>
    stats = permStats

\* two different orders of samples that are not all alike
C6_Witness ==
  /\ called /\ permCalled
  /\ permEnable = enablePercentiles /\ enablePercentiles
  /\ permuted # durations
  /\ stats.Min < stats.P50 /\ stats.P50 < stats.Max
  /\ Len(stats.Durations) = Len(durations)

\* C7: on the same non-empty sample set, P50 with enablePercentiles = false
\* (element at index n/2) equals P50 with enablePercentiles = true
\* (percentile with p = 0.5).
C7_MedianPathsAgree ==
  (called /\ permCalled /\ permuted = durations
     /\ permEnable # enablePercentiles /\ Len(durations) > 0) =>
    stats.P50 = permStats.P50

\* an even number of samples, the median neither the least nor the greatest
C7_Witness ==
  /\ called /\ permCalled /\ permuted = durations
  /\ enablePercentiles /\ ~permEnable
  /\ Len(durations) % 2 = 0
  /\ permStats.Min < permStats.P50 /\ permStats.P50 < permStats.Max

\* C8: with enablePercentiles = false and a non-empty sample set, P95, P99
\* and P999 are zero and no samples are retained, while Count, Min, Max,
\* Mean, Total and P50 (element at index n/2) are populated.
C8_DisabledLeavesUpperPercentilesZero ==
  (called /\ ~enablePercentiles /\ Len(durations) > 0) =>
    /\ stats.P95 = 0 /\ stats.P99 = 0 /\ stats.P999 = 0
    /\ stats.Durations = <<>>
    /\ stats.Count = Len(durations)
    /\ IsAtRank(durations, stats.Min, 0)
    /\ IsAtRank(durations, stats.Max, Len(durations) - 1)
    /\ IsAtRank(durations, stats.P50, Len(durations) \div 2)
    /\ stats.Total = SumOfSamples(durations, 1, Len(durations))
    /\ IsTruncatedQuotient(stats.Mean, stats.Total, Len(durations))

\* percentiles disabled, several samples, the populated fields non-zero
C8_Witness ==
  /\ called /\ ~enablePercentiles
  /\ Len(durations) >= 2
  /\ stats.Min # 0 /\ stats.P50 # 0 /\ stats.Max # 0 /\ stats.Mean # 0
  /\ stats.Min < stats.Max
  /\ stats.P95 = 0 /\ stats.Durations = <<>>

C10_CountTotalMean ==
  (called /\ Len(durations) > 0) =>
    /\ stats.Count = Len(durations)
    /\ stats.Total = SumOfSamples(durations, 1, Len(durations))
    /\ IsTruncatedQuotient(stats.Mean, stats.Total, stats.Count)

\* three samples of sum -4: the truncated mean is -1 (the floor is -2)
C10_Witness ==
  /\ called
  /\ stats.Count = 3 /\ stats.Total = -4 /\ stats.Mean = -1

\* C11: the report of a non-empty sample set has Min = the smallest and
\* Max = the largest input sample, the first and the last element of the
\* ascending-sorted copy.
C11_MinMaxAreEndsOfSorted ==
  (called /\ Len(durations) > 0) =>
    /\ \E i \in 1..Len(durations) : durations[i] = stats.Min
    /\ \E i \in 1..Len(durations) : durations[i] = stats.Max
    /\ \A i \in 1..Len(durations) :
         stats.Min <= durations[i] /\ durations[i] <= stats.Max
    /\ enablePercentiles =>
         /\ stats.Min = stats.Durations[1]
         /\ stats.Max = stats.Durations[Len(stats.Durations)]

\* the first sample handed in is neither the smallest nor the largest
C11_Witness ==
  /\ called /\ enablePercentiles /\ Len(durations) >= 3
  /\ stats.Min < durations[1] /\ durations[1] < stats.Max
  /\ stats.Min = stats.Durations[1]

(***************************************************************************)
(* Properties of a benchmark run.                                          *)
(***************************************************************************)
\* what the clock says the k-th call of the run took
Duration(k) == calls[k].returned - calls[k].issued

IsTimed(k, cat) == calls[k].kind = "timed" /\ calls[k].cat = cat

\* the rank of the k-th call among the timed calls of its category
TimedRank(k) ==
  Cardinality({j \in 1..k : IsTimed(j, calls[k].cat)})

\* the duration of the k-th call has been taken
IsMeasured(k) == k < Len(calls) \/ phase \in {"check", "issue"}

\* C12: a hash lookup that matches no row is a success: QueryRecord returns
\* a nil record and a nil error, the driver appends the lookup's duration to
\* the samples and the run does not end at that lookup.
C12_NotFoundIsSuccess ==
  \A k \in 1..Len(calls) :
    (calls[k].op = "QueryRecord" /\ calls[k].scan = "ErrNoRows") =>
      /\ calls[k].ret = [record |-> "nil", err |-> "nil"]
      /\ (halted = "fatal" => k < Len(calls))
      /\ (calls[k].kind = "timed" /\ IsMeasured(k)) =>
           /\ TimedRank(k) <= Len(samples.hash)
           /\ samples.hash[TimedRank(k)] = Duration(k)

C12_Witness ==
  /\ entry = "runPerformanceTest" /\ halted = "done"
  /\ Len(samples.hash) = 2
  /\ \E k \in 1..Len(calls) :
       /\ calls[k].op = "QueryRecord" /\ calls[k].kind = "timed"
       /\ calls[k].scan = "ErrNoRows"
       /\ TimedRank(k) = 1
       /\ calls[k + 1].op = "QueryRecord"

\* C13: in each of the three entry points a call that fails with an
\* execution error is the last call of the run, and the run does not
\* come to its end.
C13_FailureStopsTheRun ==
  \A k \in 1..Len(calls) :
    calls[k].ret.err # "nil" => (k = Len(calls) /\ halted # "done")

\* C14: in runPerformanceTest every warmup lookup has returned before the
\* first timed hash lookup is issued, no warmup duration is among the
\* samples, and the hash report is computed from exactly QueryHashCount
\* samples.
C14_WarmupBeforeTimedAndDiscarded ==
  entry = "runPerformanceTest" =>
    LET warm == {k \in 1..Len(calls) : calls[k].kind = "warmup"}
        timed == {k \in 1..Len(calls) : IsTimed(k, "hash")}
    IN /\ \A j \in warm : \A k \in timed :
            j < k /\ calls[j].returned # -1
                  /\ calls[j].returned <= calls[k].issued
       /\ timed # {} => Cardinality(warm) = cfg.WarmupQueries
       /\ Len(samples.hash) <= Cardinality(timed)
       /\ reports.hash # <<>> =>
            /\ Len(samples.hash) = cfg.QueryHashCount
            /\ reports.hash[1].Count = cfg.QueryHashCount

C14_Witness ==
  /\ entry = "runPerformanceTest" /\ halted = "done"
  /\ cfg.WarmupQueries = 2 /\ cfg.QueryHashCount = 2
  /\ reports.hash # <<>> /\ reports.hash[1].Count = 2
  /\ Cardinality({k \in 1..Len(calls) : calls[k].kind = "warmup"}) = 2

C16_OneCallAtATime ==
  /\ inFlight \in {0, 1}
  /\ inFlight = Cardinality({k \in 1..Len(calls) : calls[k].returned = -1})
  /\ \A k \in 1..(Len(calls) - 1) :
       /\ calls[k].returned # -1
       /\ calls[k].returned <= calls[k + 1].issued
  /\ \A k \in 1..Len(calls) :
       (calls[k].kind = "timed" /\ IsMeasured(k)) =>
         /\ TimedRank(k) <= Len(samples[calls[k].cat])
         /\ samples[calls[k].cat][TimedRank(k)] = Duration(k)
  /\ \A cat \in Categories :
       Len(samples[cat]) <=
         Cardinality({k \in 1..Len(calls) : IsTimed(k, cat)})

C16_Witness ==
  /\ entry = "runBenchmarkTest" /\ halted = "done"
  /\ Len(samples.hash) = 2 /\ samples.hash[1] < samples.hash[2]
  /\ reports.hash # <<>> /\ reports.hash[1].Count = 2

(***************************************************************************)
(* Properties of the comparison.                                           *)
(***************************************************************************)
\* the categories of which both means are non-zero
Comparable ==
  {c \in Categories :
     withoutIndexesResult[c] # 0 /\ withIndexesResult[c] # 0}

\* the class that the three thresholds give to the quotient num / den
ThreeWayClass(num, den) ==
  IF 2 * num > 3 * den THEN "significant"
  ELSE IF 10 * num > 11 * den THEN "modest"
       ELSE "minimal or no"

\* the speedup line of category c shows baseline mean / variant mean
ShowsRatio(c) ==
  /\ lines[c] # <<>>
  /\ lines[c][1].speedup.den # 0
  /\ lines[c][1].speedup.num * withIndexesResult[c]
       = withoutIndexesResult[c] * lines[c][1].speedup.den

C18_ZeroMeanIsInsufficientData ==
  compared =>
    \A s \in Sections :
      (withoutIndexesResult[s] = 0 \/ withIndexesResult[s] = 0) =>
        /\ lines[s] # <<>>
        /\ lines[s][1].label = "insufficient data"
        /\ lines[s][1].speedup.den # 0

RECURSIVE VariantProduct(_)
\* the product of the variant means of the categories in S
VariantProduct(S) ==
  IF S = {} THEN 1
  ELSE LET c == CHOOSE x \in S : TRUE
       IN withIndexesResult[c] * VariantProduct(S \ {c})

RECURSIVE RatioSum(_, _)
\* the sum of the ratios of the categories in S, times VariantProduct(Q)
RatioSum(S, Q) ==
  IF S = {} THEN 0
  ELSE LET c == CHOOSE x \in S : TRUE
       IN withoutIndexesResult[c] * VariantProduct(Q \ {c})
            + RatioSum(S \ {c}, Q)

\* C19: the average speedup of the summary is the arithmetic mean of the
\* ratios baseline mean / variant mean of exactly the categories (hash,
\* FROM, TO, block) with two non-zero means; with no such category the
\* summary has no average.
C19_AggregateOverComparable ==
  compared =>
    IF Comparable = {} THEN summary = <<>>
    ELSE /\ summary # <<>>
         /\ summary[1].count = Cardinality(Comparable)
         /\ summary[1].avgSpeedup.den # 0
         /\ summary[1].avgSpeedup.num * VariantProduct(Comparable)
              * Cardinality(Comparable)
              = RatioSum(Comparable, Comparable) * summary[1].avgSpeedup.den

C19_Witness ==
  /\ compared
  /\ Comparable = {"hash", "block"}
  /\ withoutIndexesResult["from"] > 0 /\ withIndexesResult["from"] = 0
  /\ withoutIndexesResult["to"] = 0
  /\ withoutIndexesResult["hash"] = 4 /\ withIndexesResult["hash"] = 2
  /\ withoutIndexesResult["block"] = 3 /\ withIndexesResult["block"] = 2
  /\ summary # <<>> /\ summary[1].count = 2
  /\ summary[1].class = "significant"

(***************************************************************************)
(* Properties of the database connection.                                  *)
(***************************************************************************)
\* C20: however many calls of ConnectDB there are, one after another or at
\* the same time, the initialisation is run at most once and every call
\* returns the same handle and the same error.
C20_InitialisedOnceSameResult ==
  /\ initRuns <= 1
  /\ opened <= 1
  /\ \A r, s \in returned : r = s

C20_Witness ==
  /\ initRuns = 1
  /\ returned = {[db |-> 1, err |-> "nil"]}
  /\ callsMade[1] = 2 /\ callerPc[1] = "idle"
  /\ callsMade[2] = 1 /\ callerPc[2] = "idle"
  /\ onceMutex = 0

(***************************************************************************)
(* Further properties of the report.                                       *)
(***************************************************************************)
\* C24: calculateLatencyStats leaves the slice handed in as it was, same
\* elements in the same order, and a second call on the same slice gives
\* the same report.
C24_InputUnchanged ==
  /\ durations = handedIn
  /\ againCalled => again = stats

C24_Witness ==
  /\ againCalled /\ enablePercentiles
  /\ Len(handedIn) = 3 /\ handedIn[1] > handedIn[2]
  /\ durations = handedIn
  /\ stats.Durations # handedIn
  /\ again = stats

(***************************************************************************)
(* Properties of the query counts.                                         *)
(***************************************************************************)
\* k is the integer part of n * ratio / RatioScale
IsIntegerPart(k, n, ratio) ==
  RatioScale * k <= n * ratio /\ n * ratio < RatioScale * (k + 1)

\* C30: for RandomReadCount >= 0 and ratios in [0, 1] with a sum of at most
\* 1 the four query counts are non-negative and add up to RandomReadCount;
\* the hash, FROM and TO counts are the truncated products and the block
\* count is the remainder.
C30_CountsAddUp ==
  counted =>
    /\ \A c \in Categories : queryCounts[c] >= 0
    /\ queryCounts.hash + queryCounts.from + queryCounts.to
         + queryCounts.block = RandomReadCount
    /\ IsIntegerPart(queryCounts.hash, RandomReadCount, readRatios.hash)
    /\ IsIntegerPart(queryCounts.from, RandomReadCount, readRatios.from)
    /\ IsIntegerPart(queryCounts.to, RandomReadCount, readRatios.to)

C30_Witness ==
  /\ counted
  /\ RandomReadCount = 11
  /\ readRatios = [hash |-> 8, from |-> 5, to |-> 5]
  /\ queryCounts = [hash |-> 4, from |-> 2, to |-> 2, block |-> 3]

(***************************************************************************)
(* Further properties of the database connection.                          *)
(***************************************************************************)
\* C29: a call of ConnectDB returns the nil handle exactly when it returns
\* an error; once the initialisation has failed, in the creation of the
\* database or in the ping, every call returns that error with the nil
\* handle and the initialisation is not entered again.
C29_NilHandleIffError ==
  /\ \A r \in returned : (r.db = 0) <=> (r.err # "nil")
  /\ (onceDone /\ err # "nil") =>
       /\ db = 0
       /\ initRuns = 1
       /\ returned \subseteq {[db |-> 0, err |-> err]}

C29_Witness ==
  /\ returned = {[db |-> 0, err |-> "ping failed"]}
  /\ opened = 1 /\ initRuns = 1
  /\ callsMade[1] = 2 /\ callerPc[1] = "idle"
  /\ callsMade[2] = 2 /\ callerPc[2] = "idle"

(***************************************************************************)
(* Further properties of a benchmark run.                                  *)
(***************************************************************************)
\* the number of operations that the configuration asks for in a category
Configured(cat) ==
  CASE cat = "hash" -> cfg.QueryHashCount
    [] cat = "from" -> cfg.QueryFromCount
    [] cat = "to" -> cfg.QueryToCount
    [] cat = "block" -> cfg.QueryBlockCount

\* C25: when a run has come to its end, every category has as many timed
\* calls and as many samples as the configuration asks for, and its report,
\* computed from these samples, has that Count.
C25_CountIsConfigured ==
  halted = "done" =>
    \A cat \in Categories :
      /\ Cardinality({k \in 1..Len(calls) : IsTimed(k, cat)})
           = Configured(cat)
      /\ Len(samples[cat]) = Configured(cat)
      /\ Configured(cat) > 0 => reports[cat] # <<>>
      /\ reports[cat] # <<>> => reports[cat][1].Count = Configured(cat)

C25_Witness ==
  /\ halted = "done" /\ entry = "runBenchmarkTest"
  /\ cfg.QueryHashCount = 1 /\ cfg.QueryBlockCount = 1
  /\ reports.hash # <<>> /\ reports.hash[1].Count = 1
  /\ reports.block # <<>> /\ reports.block[1].Count = 1
  /\ reports.to # <<>> /\ reports.to[1].Count = 0

(***************************************************************************)
(* Properties of the set-up of the table.                                  *)
(***************************************************************************)
\* C21: a CREATE INDEX statement is sent only while the table holds no
\* rows.
C21_IndexOnlyOnEmptyTable ==
  \A k \in 1..Len(statements) :
    statements[k].sql = "CREATE INDEX" => statements[k].rows = 0

\* C22: in runBenchmarkTest with withIndexes the first insert finds an empty
\* table that has the four indexes; without withIndexes no CREATE INDEX
\* statement is sent.
C22_IndexesBeforeFirstInsert ==
  tableEntry = "runBenchmarkTest" =>
    \A k \in 1..Len(statements) :
      /\ (withIndexes /\ statements[k].sql = "INSERT") =>
           (statements[k].rows = 0 /\ statements[k].indexes = AllIndexes)
      /\ ~withIndexes => statements[k].sql # "CREATE INDEX"

(***************************************************************************)
(* Properties of generateBlockBasedTransactions.                           *)
(***************************************************************************)
\* C27: with txnsPerBlock >= 1 the result has totalTxns records, and the
\* record at the 0-based place i is in block startBlock + i div txnsPerBlock
\* at the index i mod txnsPerBlock; so the blocks follow one another from
\* startBlock and none holds more than txnsPerBlock records.
C27_BlocksAreFilledInOrder ==
  (generated /\ txnsPerBlock >= 1) =>
    /\ Len(transactions) = totalTxns
    /\ \A i \in 0..(totalTxns - 1) :
         /\ transactions[i + 1].BlockNumber =
              startBlock + (i \div txnsPerBlock)
         /\ transactions[i + 1].TxBlockIndex = i % txnsPerBlock
    /\ \A b \in startBlock..(startBlock + MaxTxns) :
         Cardinality({k \in 1..Len(transactions) :
                        transactions[k].BlockNumber = b}) <= txnsPerBlock

\* a result that fills one block and goes on into the next
C27_Witness ==
  /\ generated
  /\ txnsPerBlock >= 2
  /\ totalTxns > txnsPerBlock
  /\ transactions[totalTxns].BlockNumber > startBlock

(***************************************************************************)
(* Properties of InsertRecords.                                            *)
(***************************************************************************)
RECURSIVE Concatenation(_)
\* the records of the batches of a log, in the order sent
Concatenation(log) ==
  IF log = <<>> THEN <<>>
  ELSE Concatenation(SubSeq(log, 1, Len(log) - 1)) \o log[Len(log)].records

\* ceil(n / batchSize)
BatchesNeeded(n) == (n + batchSize - 1) \div batchSize

C28_FailedBatchEndsTheRun ==
  \A k \in 1..Len(batches) :
    batches[k].result = "failed" =>
      /\ insertReturned
      /\ insertErr = <<batches[k].from, batches[k].to>>
      /\ k = Len(batches)
      /\ \A j \in 1..(k - 1) :
           batches[j].result = "ok" /\ batches[j].from # batches[k].from
      /\ inserted = Concatenation(SubSeq(batches, 1, k - 1))

\* the second batch failed while a third was still to be sent
C28_Witness ==
  /\ Len(batches) = 2
  /\ batches[2].result = "failed"
  /\ Len(records) > 2 * batchSize
  /\ Len(inserted) = batchSize

(***************************************************************************)
(* Properties of the two runs of runIndexBenchmarkComparison.              *)
(***************************************************************************)
\* C23: when both runs are over, the records the second inserted are those
\* the first inserted, and the queries of each loop had the same arguments in
\* both.
C23_SameDatasetSameQueries ==
  benchPc = "done" /\ Len(runDatasets) = 2 =>
    /\ runDatasets[1] = runDatasets[2]
    /\ runQueries[1] = runQueries[2]

====
